---- MODULE Spec2Model ----
(***************************************************************************)
(* Sample size calculator (app_v1_full_featured.py).                       *)
(*                                                                         *)
(* The script is a Streamlit page: six input widgets and one button.  Each *)
(* interaction reruns the script top to bottom; the block under the button *)
(* runs only in the rerun caused by a click.  The state of the model is    *)
(* the value of every widget plus what the last rerun put on the page.     *)
(*                                                                         *)
(* Units.  The two float widgets step by 0.1, so their values are kept as  *)
(* integer tenths of a percent (50 is 5.0%).  The arithmetic of the button *)
(* block is IEEE-754 binary64, modelled exactly: a float is a record       *)
(* [m, e] of value m * 2^e with 2^52 <= m < 2^53, m an arbitrary-precision *)
(* natural kept as a little-endian sequence of limbs.                      *)
(***************************************************************************)
EXTENDS Integers, Sequences, FiniteSets, TLC

(***************************************************************************)
(* Arbitrary-precision naturals: <<>> is 0, <<d0, d1, ...>> is             *)
(* d0 + d1*Base + ..., the last limb non-zero.                             *)
(***************************************************************************)
Base == 2^15

RECURSIVE Norm(_)
Norm(a) ==
    IF a = <<>> THEN <<>>
    ELSE IF a[Len(a)] = 0 THEN Norm(SubSeq(a, 1, Len(a) - 1))
    ELSE a

RECURSIVE FromNat(_)
FromNat(n) == IF n = 0 THEN <<>> ELSE <<n % Base>> \o FromNat(n \div Base)

RECURSIVE ToNat(_)
ToNat(a) == IF a = <<>> THEN 0 ELSE a[1] + Base * ToNat(Tail(a))

Limb(a, i) == IF i <= Len(a) THEN a[i] ELSE 0

MaxOf(x, y) == IF x >= y THEN x ELSE y

RECURSIVE AddFrom(_, _, _, _)
AddFrom(a, b, i, carry) ==
    IF i > Len(a) /\ i > Len(b)
    THEN IF carry = 0 THEN <<>> ELSE <<carry>>
    ELSE LET s == Limb(a, i) + Limb(b, i) + carry
         IN  <<s % Base>> \o AddFrom(a, b, i + 1, s \div Base)

BAdd(a, b) == AddFrom(a, b, 1, 0)

\* a - b for a >= b
RECURSIVE SubFrom(_, _, _, _)
SubFrom(a, b, i, borrow) ==
    IF i > Len(a) THEN <<>>
    ELSE LET s == a[i] - Limb(b, i) - borrow
         IN  IF s < 0 THEN <<s + Base>> \o SubFrom(a, b, i + 1, 1)
             ELSE <<s>> \o SubFrom(a, b, i + 1, 0)

BSub(a, b) == Norm(SubFrom(a, b, 1, 0))

\* -1, 0, 1 as a < b, a = b, a > b
RECURSIVE CmpFrom(_, _, _)
CmpFrom(a, b, i) ==
    IF i = 0 THEN 0
    ELSE IF a[i] < b[i] THEN -1
    ELSE IF a[i] > b[i] THEN 1
    ELSE CmpFrom(a, b, i - 1)

BCmp(a, b) ==
    IF Len(a) < Len(b) THEN -1
    ELSE IF Len(a) > Len(b) THEN 1
    ELSE CmpFrom(a, b, Len(a))

\* a * s for 0 <= s < Base
RECURSIVE MulSmallFrom(_, _, _, _)
MulSmallFrom(a, s, i, carry) ==
    IF i > Len(a)
    THEN IF carry = 0 THEN <<>> ELSE <<carry>>
    ELSE LET p == a[i] * s + carry
         IN  <<p % Base>> \o MulSmallFrom(a, s, i + 1, p \div Base)

BMulSmall(a, s) == IF s = 0 THEN <<>> ELSE MulSmallFrom(a, s, 1, 0)

\* a * Base^k
RECURSIVE ShiftLimbs(_, _)
ShiftLimbs(a, k) ==
    IF a = <<>> \/ k = 0 THEN a ELSE ShiftLimbs(<<0>> \o a, k - 1)

RECURSIVE MulFrom(_, _, _)
MulFrom(a, b, i) ==
    IF i > Len(b) THEN <<>>
    ELSE BAdd(ShiftLimbs(BMulSmall(a, b[i]), i - 1), MulFrom(a, b, i + 1))

BMul(a, b) == MulFrom(a, b, 1)

\* a \div s for 0 < s < Base, most significant limb first
RECURSIVE DivSmallFrom(_, _, _, _)
DivSmallFrom(a, s, i, rem) ==
    IF i = 0 THEN <<>>
    ELSE LET cur == rem * Base + a[i]
         IN  DivSmallFrom(a, s, i - 1, cur % s) \o <<cur \div s>>

BDivSmall(a, s) == Norm(DivSmallFrom(a, s, Len(a), 0))

\* the quotient digit: the largest d <= est with b * d <= r
RECURSIVE FixDigit(_, _, _)
FixDigit(r, b, est) ==
    IF BCmp(BMulSmall(b, est), r) <= 0 THEN est ELSE FixDigit(r, b, est - 1)

\* long division, most significant limb first, for a divisor whose top limb
\* is at least Base / 2 (so that the estimate from the two top limbs of the
\* running remainder is at most 2 too large): <<quotient, remainder>>
RECURSIVE DivFrom(_, _, _, _, _)
DivFrom(a, b, i, q, r) ==
    IF i = 0 THEN <<Norm(q), r>>
    ELSE LET r1  == Norm(<<a[i]>> \o r)
             top == Limb(r1, Len(b) + 1) * Base + Limb(r1, Len(b))
             est == IF top \div b[Len(b)] >= Base THEN Base - 1
                    ELSE top \div b[Len(b)]
             d   == FixDigit(r1, b, est)
         IN  IF d = 0 THEN DivFrom(a, b, i - 1, <<0>> \o q, r1)
             ELSE DivFrom(a, b, i - 1, <<d>> \o q, BSub(r1, BMulSmall(b, d)))

\* <<a \div b, a % b>> for b > 0
BDivMod(a, b) ==
    LET f  == Base \div (b[Len(b)] + 1)
        qr == DivFrom(BMulSmall(a, f), BMulSmall(b, f), Len(BMulSmall(a, f)),
                      <<>>, <<>>)
    IN  <<qr[1], BDivSmall(qr[2], f)>>

\* 2^k
Pow2(k) == ShiftLimbs(<<2^(k % 15)>>, k \div 15)

RECURSIVE SmallBits(_)
SmallBits(n) == IF n = 0 THEN 0 ELSE 1 + SmallBits(n \div 2)

\* number of binary digits of a
BitLen(a) == IF a = <<>> THEN 0 ELSE 15 * (Len(a) - 1) + SmallBits(a[Len(a)])

BOdd(a) == a # <<>> /\ a[1] % 2 = 1

(***************************************************************************)
(* IEEE-754 binary64 (Python float), positive values only: [m, e] is       *)
(* m * 2^e with 2^52 <= m < 2^53.  Every operation is the exact result     *)
(* rounded to nearest, ties to even, as the hardware does.                 *)
(***************************************************************************)
\* <<quotient, remainder>> of n / (d * 2^e)
ScaledDiv(n, d, e) ==
    IF e < 0 THEN BDivMod(BMul(n, Pow2(0 - e)), d)
    ELSE BDivMod(n, BMul(d, Pow2(e)))

\* the divisor of ScaledDiv
ScaledDen(d, e) == IF e < 0 THEN d ELSE BMul(d, Pow2(e))

\* round to nearest, ties to even: is the quotient qr[1] rounded up
RoundsUp(qr, den) ==
    \/ BCmp(BMulSmall(qr[2], 2), den) > 0
    \/ BCmp(BMulSmall(qr[2], 2), den) = 0 /\ BOdd(qr[1])

\* the float of the rounded 53-bit quotient q at exponent e
Packed(q, e) ==
    IF BitLen(q) > 53 THEN [m |-> Pow2(52), e |-> e + 1] ELSE [m |-> q, e |-> e]

Rounded(qr, den, e) ==
    Packed(IF RoundsUp(qr, den) THEN BAdd(qr[1], <<1>>) ELSE qr[1], e)

\* qr0 is the quotient at exponent e0, of 53 or 54 bits
RoundedAt(n, d, e0, qr0) ==
    IF BitLen(qr0[1]) > 53
    THEN Rounded(ScaledDiv(n, d, e0 + 1), ScaledDen(d, e0 + 1), e0 + 1)
    ELSE Rounded(qr0, ScaledDen(d, e0), e0)

RoundRatFrom(n, d, e0) == RoundedAt(n, d, e0, ScaledDiv(n, d, e0))

\* the float nearest to the rational n / d (n, d > 0)
RoundRat(n, d) == RoundRatFrom(n, d, BitLen(n) - BitLen(d) - 53)

\* the float of an integer literal or an int widget value
FInt(n) == RoundRat(FromNat(n), <<1>>)

\* the float a widget holds for the decimal n / 10
FTenths(n) == RoundRat(FromNat(n), FromNat(10))

FDiv(x, y) ==
    IF x.e >= y.e
    THEN RoundRat(BMul(x.m, Pow2(x.e - y.e)), y.m)
    ELSE RoundRat(x.m, BMul(y.m, Pow2(y.e - x.e)))

FMul(x, y) ==
    IF x.e + y.e < 0
    THEN RoundRat(BMul(x.m, y.m), Pow2(0 - (x.e + y.e)))
    ELSE RoundRat(BMul(BMul(x.m, y.m), Pow2(x.e + y.e)), <<1>>)

FAdd(x, y) ==
    IF x.e <= y.e
    THEN IF x.e < 0
         THEN RoundRat(BAdd(x.m, BMul(y.m, Pow2(y.e - x.e))), Pow2(0 - x.e))
         ELSE RoundRat(BMul(BAdd(x.m, BMul(y.m, Pow2(y.e - x.e))), Pow2(x.e)), <<1>>)
    ELSE IF y.e < 0
         THEN RoundRat(BAdd(BMul(x.m, Pow2(x.e - y.e)), y.m), Pow2(0 - y.e))
         ELSE RoundRat(BMul(BAdd(BMul(x.m, Pow2(x.e - y.e)), y.m), Pow2(y.e)), <<1>>)

\* x > y
FGt(x, y) ==
    IF x.e <= y.e
    THEN BCmp(x.m, BMul(y.m, Pow2(y.e - x.e))) > 0
    ELSE BCmp(BMul(x.m, Pow2(x.e - y.e)), y.m) > 0

\* math.ceil(x), for x below 2^31
FCeil(x) ==
    IF x.e >= 0 THEN ToNat(BMul(x.m, Pow2(x.e)))
    ELSE LET qr == BDivMod(x.m, Pow2(0 - x.e))
         IN  ToNat(qr[1]) + (IF qr[2] = <<>> THEN 0 ELSE 1)

\* x * 10^6 rounded to the nearest integer (x <= 2)
FMillionths(x) ==
    IF x.e >= 0
    THEN ToNat(BMul(BMul(x.m, Pow2(x.e)), FromNat(1000000)))
    ELSE ToNat(BDivMod(BAdd(BMulSmall(BMul(x.m, FromNat(1000000)), 2),
                            Pow2(0 - x.e)),
                       Pow2(1 - x.e))[1])

\* x >= y
FGeq(x, y) == ~FGt(y, x)

(***************************************************************************)
(* The widgets (lines 17-74): each returns a value between its min_value   *)
(* and max_value and starts at its value=.  The two float widgets are in   *)
(* tenths of a percent.                                                    *)
(***************************************************************************)
BaselineRateMin == 1
BaselineRateMax == 999
BaselineRateDefault == 50
MinimumImprovementMin == 1
MinimumImprovementMax == 2000
MinimumImprovementDefault == 200
ConfidenceLevelMin == 80
ConfidenceLevelMax == 99
ConfidenceLevelDefault == 95
PowerMin == 70
PowerMax == 99
PowerDefault == 80
ControlRatioMin == 10
ControlRatioMax == 90
ControlRatioDefault == 50
TreatmentRatioMin == 10
TreatmentRatioMax == 90
TreatmentRatioDefault == 50

(***************************************************************************)
(* The values the user enters: the first Num... entries of each list.      *)
(***************************************************************************)
BaselineRateChoices == <<50, 500, 600, 100>>
MinimumImprovementChoices == <<200, 999, 1000, 500>>
ConfidenceLevelChoices == <<95, 99, 80>>
PowerChoices == <<80, 90, 70>>
ControlRatioChoices == <<50, 60, 40, 30>>
TreatmentRatioChoices == <<50, 40, 60, 70>>

NumBaselineRates == 3
NumMinimumImprovements == 3
NumConfidenceLevels == 2
NumPowers == 2
NumControlRatios == 3
NumTreatmentRatios == 3

Choices(seq, n) == {seq[i] : i \in 1..(IF n < Len(seq) THEN n ELSE Len(seq))}

BaselineRates == Choices(BaselineRateChoices, NumBaselineRates)
MinimumImprovements == Choices(MinimumImprovementChoices, NumMinimumImprovements)
ConfidenceLevels == Choices(ConfidenceLevelChoices, NumConfidenceLevels)
Powers == Choices(PowerChoices, NumPowers)
ControlRatios == Choices(ControlRatioChoices, NumControlRatios)
TreatmentRatios == Choices(TreatmentRatioChoices, NumTreatmentRatios)

(***************************************************************************)
(* statsmodels.  The two library calls are taken at the arguments the      *)
(* choices above produce.  arcsin_sqrt[p] is asin(sqrt(p)) in units of     *)
(* 10^-9 for p in millionths.  power_root[<<alpha, power>>] is, in units   *)
(* of 10^-8, the d solving                                                 *)
(*     Phi(d - z) + Phi(-d - z) = power,   z = Phi^-1(1 - alpha / 2),      *)
(* the two-sided power equation NormalIndPower solves, with alpha and      *)
(* power in millionths.                                                    *)
(***************************************************************************)
arcsin_sqrt ==
    (50000 :> 225513406) @@
    (60000 :> 247467063) @@
    (75000 :> 277405516) @@
    (99950 :> 321667212) @@
    (100000 :> 321750554) @@
    (120000 :> 353741606) @@
    (150000 :> 397699415) @@
    (199900 :> 463522597) @@
    (200000 :> 463647609) @@
    (500000 :> 785398163) @@
    (600000 :> 886077124) @@
    (720000 :> 1013197500) @@
    (750000 :> 1047197551) @@
    (900000 :> 1249045772) @@
    (999500 :> 1548433783) @@
    (1000000 :> 1570796327)

power_root ==
    (<<10000, 100000>> :> 129396734) @@
    (<<10000, 200000>> :> 173417891) @@
    (<<10000, 700000>> :> 310022980) @@
    (<<10000, 800000>> :> 341745053) @@
    (<<10000, 900000>> :> 385738087) @@
    (<<50000, 100000>> :> 65235820) @@
    (<<50000, 200000>> :> 111457142) @@
    (<<50000, 700000>> :> 248435182) @@
    (<<50000, 800000>> :> 280158179) @@
    (<<50000, 900000>> :> 324151499) @@
    (<<200000, 700000>> :> 180302295) @@
    (<<200000, 800000>> :> 212198538) @@
    (<<200000, 900000>> :> 256275878)

\* proportion_effectsize(prop1, prop2) = 2 * (asin(sqrt(prop1)) -
\* asin(sqrt(prop2))), in units of 10^-9
proportion_effectsize(prop1, prop2) ==
    2 * (arcsin_sqrt[FMillionths(prop1)] - arcsin_sqrt[FMillionths(prop2)])

\* the mutant of zt_ind_solve_power that multiplies by the squared effect
\* size where the power equation divides by it
zt_ind_solve_power_inverted(effect_size, alpha, power_decimal, r) ==
    LET d  == FromNat(power_root[<<FMillionths(alpha), FMillionths(power_decimal)>>])
        h  == FromNat(IF effect_size < 0 THEN 0 - effect_size ELSE effect_size)
        rn == IF r.e >= 0 THEN BMul(r.m, Pow2(r.e)) ELSE r.m
        rd == IF r.e >= 0 THEN <<1>> ELSE Pow2(0 - r.e)
    IN  RoundRat(BMul(BMul(BMul(d, d), BMul(h, h)), BAdd(rn, rd)),
                 BMul(BMul(BMul(FromNat(1000000000), FromNat(1000000000)),
                           BMul(FromNat(1000000000), FromNat(10000000))), rn))

\* zt_ind_solve_power(effect_size, alpha, power, ratio = r, 'two-sided'): the
\* nobs1 with d = |effect_size| * sqrt(nobs1 / (1 + 1 / ratio)), that is
\* nobs1 = d^2 * (1 + 1 / ratio) / effect_size^2, as a float
zt_ind_solve_power(effect_size, alpha, power_decimal, r) ==
    LET d  == FromNat(power_root[<<FMillionths(alpha), FMillionths(power_decimal)>>])
        h  == FromNat(IF effect_size < 0 THEN 0 - effect_size ELSE effect_size)
        rn == IF r.e >= 0 THEN BMul(r.m, Pow2(r.e)) ELSE r.m
        rd == IF r.e >= 0 THEN <<1>> ELSE Pow2(0 - r.e)
    IN  RoundRat(BMul(BMulSmall(BMul(d, d), 100), BAdd(rn, rd)),
                 BMul(BMul(h, h), rn))

(***************************************************************************)
(* The block under the button (lines 79-117), one operator per statement.  *)
(***************************************************************************)
\* line 82: control_proportion = baseline_rate / 100
ControlProportion(b) == FDiv(FTenths(b), FInt(100))

\* line 83: sensitivity = minimum_improvement / 100
Sensitivity(m) == FDiv(FTenths(m), FInt(100))

\* line 84: treatment_proportion = control_proportion * (1 + sensitivity)
TreatmentProportion(b, m) ==
    FMul(ControlProportion(b), FAdd(FInt(1), Sensitivity(m)))

\* the mutant of ExceedsOne that compares the fraction with 100
ExceedsOneAsPercent(treatment_prop) == FGt(treatment_prop, FInt(100))

\* line 87: treatment_proportion > 1.0
ExceedsOne(treatment_prop) == FGt(treatment_prop, FInt(1))

\* line 92: alpha = (100 - confidence_level) / 100
Alpha(cl) == FDiv(FInt(100 - cl), FInt(100))

\* the mutant of PowerDecimal that takes the type II error rate for the power
PowerDecimalAsBeta(pw) == FDiv(FInt(100 - pw), FInt(100))

\* line 93: power_decimal = power / 100
PowerDecimal(pw) == FDiv(FInt(pw), FInt(100))

\* line 96: total_ratio = control_ratio + treatment_ratio
TotalRatio(c, t) == c + t

\* the mutant of AdjustedTreatmentRatio that keeps the entered value
AdjustedTreatmentRatioKept(c, t) == t

\* lines 97-99: treatment_ratio after the adjustment
AdjustedTreatmentRatio(c, t) == IF TotalRatio(c, t) # 100 THEN 100 - c ELSE t

\* line 102: ratio = (treatment_ratio / 100) / (control_ratio / 100)
Ratio(c, t) == FDiv(FDiv(FInt(t), FInt(100)), FDiv(FInt(c), FInt(100)))

\* the mutant of EffectSize that takes the raw difference of the proportions
EffectSizeRawDifference(treatment_prop, control_prop) ==
    (FMillionths(treatment_prop) - FMillionths(control_prop)) * 1000

\* line 105: effect_size = proportion_effectsize(treatment_proportion,
\* control_proportion)
EffectSize(treatment_prop, control_prop) ==
    proportion_effectsize(treatment_prop, control_prop)

\* the mutant of MathCeil that truncates
MathFloor(x) ==
    IF x.e >= 0 THEN ToNat(BMul(x.m, Pow2(x.e)))
    ELSE ToNat(BDivMod(x.m, Pow2(0 - x.e))[1])

\* math.ceil
MathCeil(x) == FCeil(x)

\* lines 108-114: control_sample = math.ceil(zt_ind_solve_power(...))
ControlSample(nobs) == MathCeil(nobs)

\* the mutant of TreatmentSample that truncates the product
TreatmentSampleTruncated(control, r) == MathFloor(FMul(FInt(control), r))

\* line 116: treatment_sample = math.ceil(control_sample * ratio)
TreatmentSample(control, r) == MathCeil(FMul(FInt(control), r))

\* line 117: total_needed = control_sample + treatment_sample
TotalNeeded(control, treatment) == control + treatment

\* a float that was not computed
NoFloat == [m |-> <<>>, e |-> 0]

\* lines 87-89: st.error and st.stop
ErrorPage(tp, t2) ==
    [page |-> "error", warning |-> FALSE, treatment_proportion |-> tp,
     adjusted |-> t2, ratio |-> NoFloat, nobs1 |-> NoFloat,
     control_sample |-> 0, treatment_sample |-> 0, total_needed |-> 0]

\* a proportion above 1 that got past line 87 makes numpy's arcsin return nan
\* and math.ceil raise, which Streamlit shows as an exception
ExceptionPage(tp, t2) ==
    [page |-> "exception", warning |-> FALSE, treatment_proportion |-> tp,
     adjusted |-> t2, ratio |-> NoFloat, nobs1 |-> NoFloat,
     control_sample |-> 0, treatment_sample |-> 0, total_needed |-> 0]

\* lines 122-166: the results
ResultsPage(tp, t2, r, x, cs, ts) ==
    [page |-> "results", warning |-> FALSE, treatment_proportion |-> tp,
     adjusted |-> t2, ratio |-> r, nobs1 |-> x, control_sample |-> cs,
     treatment_sample |-> ts, total_needed |-> TotalNeeded(cs, ts)]

\* lines 116-117
Sized(tp, t2, r, x, cs) == ResultsPage(tp, t2, r, x, cs, TreatmentSample(cs, r))

\* lines 108-114, the rounding
Solved(tp, t2, r, x) == Sized(tp, t2, r, x, ControlSample(x))

\* lines 104-114
Solve(tp, b, cl, pw, t2, r) ==
    Solved(tp, t2, r,
           zt_ind_solve_power(EffectSize(tp, ControlProportion(b)), Alpha(cl),
                              PowerDecimal(pw), r))

\* lines 91-102, for the treatment weight t2 that line 99 leaves
Split(tp, b, cl, pw, c, t2) == Solve(tp, b, cl, pw, t2, Ratio(c, t2))

\* lines 86-89, and what follows when the check passes
Checked(tp, b, cl, pw, c, t2) ==
    IF ExceedsOne(tp) THEN ErrorPage(tp, t2)
    ELSE IF FGt(tp, FInt(1)) THEN ExceptionPage(tp, t2)
    ELSE Split(tp, b, cl, pw, c, t2)

\* lines 82-117 for the widget values b, m, cl, pw, c and the treatment
\* weight t2 the calculation uses
Computed(b, m, cl, pw, c, t2) ==
    Checked(TreatmentProportion(b, m), b, cl, pw, c, t2)

\* the pairs of weights the calculation is run with
Splits ==
    {<<c, AdjustedTreatmentRatio(c, t)>> : c \in ControlRatios, t \in TreatmentRatios}

\* Computed for each combination of widget values; merging with the empty
\* function makes TLC enumerate the table once instead of at every use
ComputedFor ==
    [i \in BaselineRates \X MinimumImprovements \X ConfidenceLevels \X Powers
               \X Splits |->
        Computed(i[1], i[2], i[3], i[4], i[5][1], i[5][2])] @@ <<>>

\* lines 96-99 as the page shows them: the warning when the weights do not
\* sum to 100, and no adjustment when line 89 stopped the script before it
Shown(out, c, t) ==
    IF out.page = "error" THEN [out EXCEPT !.adjusted = t]
    ELSE [out EXCEPT !.warning = TotalRatio(c, t) # 100]

\* what a click puts on the page for the widget values b, m, cl, pw, c, t
Run(b, m, cl, pw, c, t) ==
    Shown(ComputedFor[<<b, m, cl, pw, <<c, AdjustedTreatmentRatio(c, t)>>>>], c, t)

(***************************************************************************)
(* State: the six widget values, and what the last rerun displayed.        *)
(***************************************************************************)
VARIABLES
    baseline_rate,         \* tenths of a percent
    minimum_improvement,   \* tenths of a percent
    confidence_level,
    power,
    control_ratio,
    treatment_ratio,
    page,                  \* "inputs", "error", "results" or "exception"
    warning,               \* the st.warning of line 98 is shown
    treatment_proportion,  \* line 84, a float
    adjusted,              \* treatment_ratio as the block leaves it (line 99)
    ratio,                 \* line 102, a float
    nobs1,                 \* what zt_ind_solve_power returned, a float
    control_sample,
    treatment_sample,
    total_needed

widgets == <<baseline_rate, minimum_improvement, confidence_level, power,
             control_ratio, treatment_ratio>>

output == <<page, warning, treatment_proportion, adjusted, ratio, nobs1,
            control_sample, treatment_sample, total_needed>>

vars == <<widgets, output>>

\* a rerun in which the button returns False: only the form is drawn
FormOnly ==
    /\ page' = "inputs"
    /\ warning' = FALSE
    /\ treatment_proportion' = NoFloat
    /\ adjusted' = 0
    /\ ratio' = NoFloat
    /\ nobs1' = NoFloat
    /\ control_sample' = 0
    /\ treatment_sample' = 0
    /\ total_needed' = 0

Init ==
    /\ baseline_rate = BaselineRateDefault
    /\ minimum_improvement = MinimumImprovementDefault
    /\ confidence_level = ConfidenceLevelDefault
    /\ power = PowerDefault
    /\ control_ratio = ControlRatioDefault
    /\ treatment_ratio = TreatmentRatioDefault
    /\ page = "inputs"
    /\ warning = FALSE
    /\ treatment_proportion = NoFloat
    /\ adjusted = 0
    /\ ratio = NoFloat
    /\ nobs1 = NoFloat
    /\ control_sample = 0
    /\ treatment_sample = 0
    /\ total_needed = 0

\* lines 17-24
SetBaselineRate ==
    \E v \in BaselineRates :
        /\ v \in BaselineRateMin..BaselineRateMax
        /\ v # baseline_rate
        /\ baseline_rate' = v
        /\ UNCHANGED <<minimum_improvement, confidence_level, power,
                       control_ratio, treatment_ratio>>
        /\ FormOnly

\* lines 27-34
SetMinimumImprovement ==
    \E v \in MinimumImprovements :
        /\ v \in MinimumImprovementMin..MinimumImprovementMax
        /\ v # minimum_improvement
        /\ minimum_improvement' = v
        /\ UNCHANGED <<baseline_rate, confidence_level, power,
                       control_ratio, treatment_ratio>>
        /\ FormOnly

\* lines 37-44
SetConfidenceLevel ==
    \E v \in ConfidenceLevels :
        /\ v \in ConfidenceLevelMin..ConfidenceLevelMax
        /\ v # confidence_level
        /\ confidence_level' = v
        /\ UNCHANGED <<baseline_rate, minimum_improvement, power,
                       control_ratio, treatment_ratio>>
        /\ FormOnly

\* lines 47-54
SetPower ==
    \E v \in Powers :
        /\ v \in PowerMin..PowerMax
        /\ v # power
        /\ power' = v
        /\ UNCHANGED <<baseline_rate, minimum_improvement, confidence_level,
                       control_ratio, treatment_ratio>>
        /\ FormOnly

\* lines 60-66
SetControlRatio ==
    \E v \in ControlRatios :
        /\ v \in ControlRatioMin..ControlRatioMax
        /\ v # control_ratio
        /\ control_ratio' = v
        /\ UNCHANGED <<baseline_rate, minimum_improvement, confidence_level,
                       power, treatment_ratio>>
        /\ FormOnly

\* lines 68-74
SetTreatmentRatio ==
    \E v \in TreatmentRatios :
        /\ v \in TreatmentRatioMin..TreatmentRatioMax
        /\ v # treatment_ratio
        /\ treatment_ratio' = v
        /\ UNCHANGED <<baseline_rate, minimum_improvement, confidence_level,
                       power, control_ratio>>
        /\ FormOnly

\* lines 79-117: a click on "Calculate Sample Size"
Calculate ==
    \E out \in {Run(baseline_rate, minimum_improvement, confidence_level,
                    power, control_ratio, treatment_ratio)} :
        /\ page' = out.page
        /\ warning' = out.warning
        /\ treatment_proportion' = out.treatment_proportion
        /\ adjusted' = out.adjusted
        /\ ratio' = out.ratio
        /\ nobs1' = out.nobs1
        /\ control_sample' = out.control_sample
        /\ treatment_sample' = out.treatment_sample
        /\ total_needed' = out.total_needed
        /\ UNCHANGED widgets

Next ==
    \/ SetBaselineRate
    \/ SetMinimumImprovement
    \/ SetConfidenceLevel
    \/ SetPower
    \/ SetControlRatio
    \/ SetTreatmentRatio
    \/ Calculate

Spec == Init /\ [][Next]_vars

(***************************************************************************)
(* Properties.                                                             *)
(***************************************************************************)
TypeOK ==
    /\ baseline_rate \in BaselineRateMin..BaselineRateMax
    /\ minimum_improvement \in MinimumImprovementMin..MinimumImprovementMax
    /\ confidence_level \in ConfidenceLevelMin..ConfidenceLevelMax
    /\ power \in PowerMin..PowerMax
    /\ control_ratio \in ControlRatioMin..ControlRatioMax
    /\ treatment_ratio \in TreatmentRatioMin..TreatmentRatioMax
    /\ page \in {"inputs", "error", "results", "exception"}

\* baseline_rate * (1 + relative_improvement) in millionths, exactly
ExactTreatmentRate == baseline_rate * (1000 + minimum_improvement)

\* the float x times the integer k is at most the integer n
TimesLeq(x, k, n) ==
    IF x.e < 0
    THEN BCmp(BMulSmall(x.m, k), BMul(FromNat(n), Pow2(0 - x.e))) <= 0
    ELSE BCmp(BMulSmall(BMul(x.m, Pow2(x.e)), k), FromNat(n)) <= 0

\* the float x is t / c to within a relative 2^-50
IsQuotient(x, t, c) ==
    IF BCmp(BMulSmall(x.m, c), BMul(FromNat(t), Pow2(0 - x.e))) >= 0
    THEN BCmp(BMul(BSub(BMulSmall(x.m, c), BMul(FromNat(t), Pow2(0 - x.e))),
                   Pow2(50)),
              BMul(FromNat(t), Pow2(0 - x.e))) <= 0
    ELSE BCmp(BMul(BSub(BMul(FromNat(t), Pow2(0 - x.e)), BMulSmall(x.m, c)),
                   Pow2(50)),
              BMul(FromNat(t), Pow2(0 - x.e))) <= 0

\* what a click shows with one widget set to another value
WithImprovement(m) ==
    Run(baseline_rate, m, confidence_level, power, control_ratio, treatment_ratio)

WithConfidence(cl) ==
    Run(baseline_rate, minimum_improvement, cl, power, control_ratio,
        treatment_ratio)

WithPower(pw) ==
    Run(baseline_rate, minimum_improvement, confidence_level, pw, control_ratio,
        treatment_ratio)

\* the weights can be entered the other way round
Swappable ==
    treatment_ratio \in ControlRatios /\ control_ratio \in TreatmentRatios

Swapped ==
    Run(baseline_rate, minimum_improvement, confidence_level, power,
        treatment_ratio, control_ratio)

\* C1: once Calculate has run, a treatment rate above 1 has produced the
\* error and no control_n, treatment_n or total_n, and a result is only ever
\* shown for a treatment rate in (0, 1].
C1_BoundaryRejection ==
    page # "inputs" =>
        /\ ExactTreatmentRate > 1000000 =>
               /\ page = "error"
               /\ control_sample = 0 /\ treatment_sample = 0 /\ total_needed = 0
        /\ page = "results" =>
               /\ ExactTreatmentRate > 0 /\ ExactTreatmentRate <= 1000000
               /\ ~FGt(treatment_proportion, FInt(1))

\* the rejection of 60% with a 100% improvement
C1_Witness ==
    /\ page = "error"
    /\ baseline_rate = 600 /\ minimum_improvement = 1000
    /\ FGt(treatment_proportion, FInt(1))

C3_AllocationConsistency ==
    page = "results" =>
        /\ treatment_sample * control_ratio - control_sample * adjusted >= 0
        /\ treatment_sample * control_ratio - control_sample * adjusted
               < control_ratio
        /\ total_needed = control_sample + treatment_sample

\* C4: weights that do not sum to 100 never make the calculation fail; the
\* treatment weight becomes 100 - control_weight (with the warning), weights
\* that do sum to 100 are used as entered, and every result is computed with
\* two positive weights summing to 100 and ratio = (100 - control_weight) /
\* control_weight.
C4_Normalization ==
    /\ page \in {"error", "exception"} => ExactTreatmentRate > 1000000
    /\ page = "results" =>
        /\ control_ratio + treatment_ratio # 100 =>
               adjusted = 100 - control_ratio /\ warning
        /\ control_ratio + treatment_ratio = 100 =>
               adjusted = treatment_ratio /\ ~warning
        /\ control_ratio + adjusted = 100
        /\ control_ratio > 0 /\ adjusted > 0
        /\ IsQuotient(ratio, 100 - control_ratio, control_ratio)

\* a result for weights that did not sum to 100
C4_Witness ==
    /\ page = "results"
    /\ control_ratio + treatment_ratio # 100
    /\ adjusted # treatment_ratio
    /\ warning

\* C5: with control_weight and treatment_weight swapped, control_n and
\* treatment_n are swapped exactly.
C5_Symmetry ==
    page = "results" /\ Swappable =>
        \A o \in {Swapped} :
            /\ o.page = "results"
            /\ o.control_sample = treatment_sample
            /\ o.treatment_sample = control_sample

\* C5 as amended: for weights that sum to 100, the swapped control_n is at
\* most treatment_n and falls short of it by at most ceil(ratio) + 1, and
\* control_n is at most the swapped treatment_n.
C5_SymmetryUpToRounding ==
    page = "results" /\ Swappable /\ control_ratio + treatment_ratio = 100 =>
        \A o \in {Swapped} :
            /\ o.page = "results"
            /\ o.control_sample <= treatment_sample
            /\ treatment_sample - o.control_sample
                   <= (treatment_ratio + control_ratio - 1) \div control_ratio + 1
            /\ control_sample <= o.treatment_sample

\* an uneven split summing to 100 whose swap is not exact
C5_Witness ==
    /\ page = "results"
    /\ Swappable
    /\ control_ratio + treatment_ratio = 100
    /\ control_ratio # treatment_ratio
    /\ Swapped.control_sample < treatment_sample

\* C6: for a larger relative_improvement, all else equal, control_n is
\* strictly smaller.
C6_StrictMonotonicity ==
    page = "results" =>
        \A m \in MinimumImprovements :
            m > minimum_improvement =>
                \A o \in {WithImprovement(m)} :
                    o.page = "results" => o.control_sample < control_sample

\* C6 as amended: for a larger relative_improvement, all else equal,
\* control_n is never larger.
C6_Monotonicity ==
    page = "results" =>
        \A m \in MinimumImprovements :
            m > minimum_improvement =>
                \A o \in {WithImprovement(m)} :
                    o.page = "results" => o.control_sample <= control_sample

\* a result that a larger improvement makes strictly smaller
C6_Witness ==
    /\ page = "results"
    /\ \E m \in MinimumImprovements :
           /\ m > minimum_improvement
           /\ WithImprovement(m).page = "results"
           /\ WithImprovement(m).control_sample < control_sample

\* C7: a higher confidence level, or a higher power, all else equal, never
\* gives a smaller control_n.
C7_ConfidencePowerMonotonicity ==
    page = "results" =>
        /\ \A cl \in ConfidenceLevels :
               cl > confidence_level =>
                   WithConfidence(cl).control_sample >= control_sample
        /\ \A pw \in Powers :
               pw > power => WithPower(pw).control_sample >= control_sample

\* a result that both a higher confidence and a higher power make larger
C7_Witness ==
    /\ page = "results"
    /\ \E cl \in ConfidenceLevels :
           cl > confidence_level /\ WithConfidence(cl).control_sample > control_sample
    /\ \E pw \in Powers :
           pw > power /\ WithPower(pw).control_sample > control_sample

\* the widget values of the reference scenario: 5%, 20%, 95%, 80%, 50/50
ReferenceScenario ==
    /\ baseline_rate = 50 /\ minimum_improvement = 200
    /\ confidence_level = 95 /\ power = 80
    /\ control_ratio = 50 /\ treatment_ratio = 50

\* C10: the reference scenario gives treatment_rate = 6.00%, control_n and
\* treatment_n within 1 of 3,840 and total_n within 2 of 7,680.
C10_ReferenceValues ==
    ReferenceScenario /\ page = "results" =>
        /\ FMillionths(treatment_proportion) = 60000
        /\ control_sample \in 3839..3841
        /\ treatment_sample \in 3839..3841
        /\ total_needed \in 7678..7682

\* C10 as amended: the reference scenario gives treatment_rate = 6.00%,
\* control_n = 8,143, treatment_n = 8,143 and total_n = 16,286.
C10_ReferenceValuesAmended ==
    ReferenceScenario /\ page # "inputs" =>
        /\ page = "results"
        /\ FMillionths(treatment_proportion) = 60000
        /\ control_sample = 8143
        /\ treatment_sample = 8143
        /\ total_needed = 16286

\* the reference scenario, calculated
C10_Witness == ReferenceScenario /\ page = "results" /\ total_needed > 0
====
